---- MODULE Spec2Model ----
(***************************************************************************)
(* A model of jvox's two GPU-facing components:                            *)
(*   - RenderContext (src/src/render_context.rs): the terrain renderer,    *)
(*     its pending "next frame" command encoder, the dirty flag and the    *)
(*     per-frame render loop;                                              *)
(*   - GpuContext (src/src/gpu.rs): the device / swap chain facade.        *)
(* The graphics backend is modelled by what the program hands to it: the   *)
(* commands recorded into each encoder, the order command buffers reach    *)
(* the single queue, and the buffer contents that result from executing    *)
(* them in that order.                                                     *)
(***************************************************************************)
EXTENDS Integers, Sequences, FiniteSets, TLC

VARIABLES
    window,              \* the window's inner size <<width, height>>
    adapter,             \* what an adapter request yields on this machine
    device_request,      \* what GpuContext's device request yields on this machine
    process,             \* "running" | "terminated" (a panic ends the process)
    renders,             \* number of completed render() calls
    resizes,             \* number of RenderContext::resize calls
    acquire_failed,      \* whether a get_next_texture() of render() has failed
    rc_requested,        \* <<>>, or <<the size of the most recent RenderContext::resize>>
    (* RenderContext *)
    rc_result,           \* "NotCalled" | "Some" | "Panicked"
    next_frame_encoder,  \* id of the pending encoder
    amplitude,
    frequency,
    sc_desc,
    swap_chain,
    mx_total,
    dirty,
    (* the backend objects the RenderContext created *)
    encoders,            \* id -> [state, cmds]
    queue,               \* ids of the encoders whose command buffers were submitted
    vertex_buf,          \* contents, as 4-byte words
    index_buf,
    uniform_buf,
    texture,
    frames,              \* what each executed render pass drew
    (* GpuContext *)
    gpu_result,          \* <<"NotCalled">> | <<"Ok">> | <<"Err", ...>>
    gpu_context,         \* <<>> or <<the context>>
    gpu_requested,       \* <<>>, or <<the size of the most recent GpuContext::resize>>
    gpu_encoders,        \* state of each encoder the GpuContext created
    gpu_queue,           \* ids of the encoders submitted through the GpuContext
    gpu_frame            \* result of the last get_next_frame()

rc_vars == <<rc_result, next_frame_encoder, amplitude, frequency, sc_desc,
             swap_chain, mx_total, dirty>>
backend_vars == <<encoders, queue, vertex_buf, index_buf, uniform_buf, texture, frames>>
gpu_vars == <<gpu_result, gpu_context, gpu_requested, gpu_encoders, gpu_queue, gpu_frame>>
env_vars == <<window, adapter, device_request>>
vars == <<env_vars, process, renders, resizes, acquire_failed, rc_requested, rc_vars, backend_vars, gpu_vars>>

----------------------------------------------------------------------------
(* Bounds of the model *)

MaxRenders == 2
MaxResizes == 2
MaxGpuEncoders == 2

\* Sizes the driver can forward to resize, a zero-width one included, and
\* the size of the window when a context is created.
Sizes == {<<1, 1>>, <<2, 1>>, <<0, 1>>}
WindowSizes == {<<2, 1>>}

----------------------------------------------------------------------------
(* Program constants *)

DefaultAmplitude == 10
DefaultFrequency == 6
VERTEX_SIZE == 24
TextureSize == 256
UniformCopySize == 64
GridCells == 1

\* Values the driver passes to set_amplitude and set_frequency.
Amplitudes == {DefaultAmplitude, 5}
Frequencies == {DefaultFrequency, 3}

AdapterRequestResults == {"Some", "None"}
DeviceRequestResults == {<<"Ok">>, <<"Err", "wgpu::RequestDeviceError">>}
SwapChainOutputs == {"Frame", "Timeout"}

----------------------------------------------------------------------------
(* Values.  Buffer data is a sequence of 4-byte words: a 32-bit float or    *)
(* a u32, each a tagged tuple.  bytemuck::cast_slice reinterprets such a    *)
(* slice as bytes, 4 per word, without changing it; byte lengths and byte   *)
(* offsets are kept in bytes.                                               *)

RECURSIVE GCD(_, _)
GCD(a, b) == IF b = 0 THEN a ELSE GCD(b, a % b)

RECURSIVE Pow(_, _)
Pow(b, n) == IF n = 0 THEN 1 ELSE b * Pow(b, n - 1)

Lit(n) == <<"lit", n>>
U32(n) == <<"u32", n>>

ByteLen(words) == 4 * Len(words)

\* `w as f32 / h as f32`: the quotient as a fraction in lowest terms;
\* x/0 is +inf (<<1, 0>>) for x > 0 and 0/0 is NaN (<<0, 0>>).
aspect_ratio(w, h) ==
    IF w = 0 /\ h = 0 THEN <<0, 0>>
    ELSE <<w \div GCD(w, h), h \div GCD(w, h)>>

RECURSIVE Flatten(_)
Flatten(ss) == IF ss = <<>> THEN <<>> ELSE Head(ss) \o Flatten(Tail(ss))

\* utils::generate_matrix: 16 floats that depend on the aspect ratio only.
generate_matrix(aspect) ==
    [i \in 1 .. 16 |-> <<"mx", i, aspect[1], aspect[2]>>]

\* The precondition of utils::generate_matrix, aspect > 0.0: a positive
\* quotient or +inf; neither 0 nor NaN.
positive_aspect(aspect) == aspect[1] > 0

\* The aspect ratio generate_matrix was called with to produce mx.
aspect_of(mx) == <<mx[1][3], mx[1][4]>>

\* utils::create_vertices: a (GridCells+1) x (GridCells+1) lattice; the
\* height of a lattice point is a function of amplitude, frequency and the
\* point; two triangles per cell.  A vertex is 6 floats.
LatticePoints == (GridCells + 1) * (GridCells + 1)
PointX(p) == (p - 1) % (GridCells + 1)
PointZ(p) == (p - 1) \div (GridCells + 1)
Vertex(a, f, p) ==
    << Lit(PointX(p)), <<"height", a, f, PointX(p), PointZ(p)>>, Lit(PointZ(p)), Lit(1),
       <<"tex", PointX(p), GridCells>>, <<"tex", PointZ(p), GridCells>> >>
CellIndices(c) ==
    LET x == (c - 1) % GridCells
        z == (c - 1) \div GridCells
        p00 == z * (GridCells + 1) + x
        p10 == p00 + 1
        p01 == p00 + GridCells + 1
        p11 == p01 + 1
    IN  <<U32(p00), U32(p01), U32(p10), U32(p10), U32(p01), U32(p11)>>
create_vertices(a, f) ==
    [vertex_data |-> [p \in 1 .. LatticePoints |-> Vertex(a, f, p)],
     index_data  |-> Flatten([c \in 1 .. GridCells * GridCells |-> CellIndices(c)])]

\* utils::create_texels(size): size * size RGBA texels.
create_texels(size) == [kind |-> "texels", size |-> size, len |-> size * size * 4]

\* Lengths recorded by create().
vertex_buf_len ==
    Len(create_vertices(DefaultAmplitude, DefaultFrequency).vertex_data) * VERTEX_SIZE
index_buf_len ==
    ByteLen(create_vertices(DefaultAmplitude, DefaultFrequency).index_data) \div 4

----------------------------------------------------------------------------
(* The backend: command encoders, the queue and buffer memory *)

Surface == "surface"
Device == "device"
Queue == "queue"

SwapChainDescriptor(size) ==
    [usage |-> "OUTPUT_ATTACHMENT", format |-> "Bgra8UnormSrgb",
     width |-> size[1], height |-> size[2], present_mode |-> "Mailbox"]

\* device.create_swap_chain(&surface, &desc)
create_swap_chain(surface, device, desc) ==
    [surface |-> surface, device |-> device, desc |-> desc]

\* device.create_command_encoder: a new encoder, recording and empty.
create_command_encoder(encs) == Append(encs, [state |-> "Recording", cmds |-> <<>>])

\* encoder.copy_buffer_to_buffer(&src, 0, &dst, 0, size); size in bytes.
copy_buffer_to_buffer(src, dst, size) ==
    [op |-> "copy_buffer_to_buffer", src |-> src, dst |-> dst, size |-> size]

\* encoder.copy_buffer_to_texture(..): the texel upload of create().
copy_buffer_to_texture(src, dst, size) ==
    [op |-> "copy_buffer_to_texture", src |-> src, dst |-> dst,
     bytes_per_row |-> 4 * size, size |-> size]

\* The bind group of create(): binding 0 is the uniform buffer over 0..mx_ref.len().
bind_group ==
    [binding0 |-> [buffer |-> "uniform_buf", range |-> <<0, Len(generate_matrix(<<1, 1>>))>>],
     binding1 |-> "texture_view", binding2 |-> "sampler"]

\* The render pass render() records: one indexed draw over 0..index_buf_len.
render_pass(frame) ==
    [op |-> "render_pass", attachment |-> frame, load_op |-> "Clear",
     pipeline |-> "render_pipeline", bind_group |-> bind_group,
     index_buffer |-> "index_buf", vertex_buffer |-> "vertex_buf",
     draw_indexed |-> <<0, index_buf_len>>]

\* Recording a command into encoder id.
Record(encs, id, cmd) == [encs EXCEPT ![id].cmds = Append(@, cmd)]

\* encoder.finish()
Finish(encs, id) == [encs EXCEPT ![id].state = "Finished"]

\* A word whose first n bytes (little-endian: the low n bytes of a u32) come
\* from `new` and whose other bytes come from `old`.
MixWord(new, old, n) ==
    IF new = old THEN new
    ELSE IF new[1] = "u32" /\ old[1] = "u32"
    THEN U32((new[2] % Pow(256, n)) + (old[2] \div Pow(256, n)) * Pow(256, n))
    ELSE <<"mix", n>> \o new \o old

\* A buffer-to-buffer copy of `size` bytes, offset 0 to offset 0.
CopyInto(dst, src, size) ==
    [k \in 1 .. Len(dst) |->
        IF k > Len(src) \/ 4 * (k - 1) >= size THEN dst[k]
        ELSE IF 4 * k <= size THEN src[k]
        ELSE MixWord(src[k], dst[k], size - 4 * (k - 1))]

\* The words of a buffer that hold bytes lo .. hi-1 (lo and hi word-aligned).
Range(words, lo, hi) ==
    SubSeq(words, (lo \div 4) + 1, IF hi \div 4 <= Len(words) THEN hi \div 4 ELSE Len(words))

\* What the queue does with one command.
ExecuteCommand(c, mem) ==
    CASE c.op = "copy_buffer_to_buffer" ->
            [mem EXCEPT ![c.dst] = CopyInto(@, c.src, c.size)]
      [] c.op = "copy_buffer_to_texture" ->
            [mem EXCEPT !.texture = c.src]
      [] c.op = "render_pass" ->
            [mem EXCEPT !.frames = Append(@,
                [attachment |-> c.attachment,
                 indices  |-> Range(mem.index_buf, 4 * c.draw_indexed[1], 4 * c.draw_indexed[2]),
                 vertices |-> mem.vertex_buf,
                 uniform  |-> Range(mem.uniform_buf, c.bind_group.binding0.range[1],
                                    c.bind_group.binding0.range[2]),
                 texture  |-> mem.texture])]

\* A submitted command buffer executes its commands in recording order.
RECURSIVE Execute(_, _)
Execute(cmds, mem) ==
    IF cmds = <<>> THEN mem ELSE Execute(Tail(cmds), ExecuteCommand(Head(cmds), mem))

Memory ==
    [vertex_buf |-> vertex_buf, index_buf |-> index_buf, uniform_buf |-> uniform_buf,
     texture |-> texture, frames |-> frames]

\* queue.submit(&[encs[id].finish()]): the command buffer joins the queue and
\* its commands take effect after those of every earlier submission.
Submit(encs, id, mem) ==
    LET done == Execute(encs[id].cmds, mem)
    IN  /\ encoders' = Finish(encs, id)
        /\ queue' = Append(queue, id)
        /\ vertex_buf' = done.vertex_buf
        /\ index_buf' = done.index_buf
        /\ uniform_buf' = done.uniform_buf
        /\ texture' = done.texture
        /\ frames' = done.frames

----------------------------------------------------------------------------
(* Initial state: the process has started, nothing is constructed yet *)

NoDescriptor == SwapChainDescriptor(<<0, 0>>)
NoSwapChain == [surface |-> "", device |-> "", desc |-> NoDescriptor]
NoTexture == [kind |-> "none", size |-> 0, len |-> 0]

Started ==
    /\ window \in WindowSizes
    /\ adapter \in AdapterRequestResults
    /\ process = "running"
    /\ renders = 0
    /\ resizes = 0
    /\ acquire_failed = FALSE
    /\ rc_requested = <<>>
    /\ rc_result = "NotCalled"
    /\ next_frame_encoder = 0
    /\ amplitude = 0
    /\ frequency = 0
    /\ sc_desc = NoDescriptor
    /\ swap_chain = NoSwapChain
    /\ mx_total = <<>>
    /\ dirty = FALSE
    /\ encoders = <<>>
    /\ queue = <<>>
    /\ vertex_buf = <<>>
    /\ index_buf = <<>>
    /\ uniform_buf = <<>>
    /\ texture = NoTexture
    /\ frames = <<>>
    /\ gpu_result = <<"NotCalled">>
    /\ gpu_context = <<>>
    /\ gpu_requested = <<>>
    /\ gpu_encoders = <<>>
    /\ gpu_queue = <<>>
    /\ gpu_frame = <<"NotCalled">>

\* The RenderContext's device request has no failure to return.
Init == Started /\ device_request = <<"Ok">>

GpuInit == Started /\ device_request \in DeviceRequestResults

----------------------------------------------------------------------------
(* RenderContext *)

\* bytemuck::cast_slice(&vertex_data): the vertices' floats, one after another.
cast_vertices(vertex_data) == Flatten(vertex_data)

\* regenerate_mesh computing the mesh from the initial parameters rather than
\* the current ones.
regenerate_mesh_initial(encs, pending, a, f) ==
    LET mesh == create_vertices(DefaultAmplitude, DefaultFrequency)
        temp_v_buf == cast_vertices(mesh.vertex_data)
        temp_i_buf == mesh.index_data
        v == copy_buffer_to_buffer(temp_v_buf, "vertex_buf", Len(mesh.vertex_data) * 24)
        i == copy_buffer_to_buffer(temp_i_buf, "index_buf", Len(mesh.index_data))
    IN  Record(Record(encs, pending, v), pending, i)

\* regenerate_mesh: the new mesh is staged into the pending encoder.
regenerate_mesh(encs, pending, a, f) ==
    LET mesh == create_vertices(a, f)
        temp_v_buf == cast_vertices(mesh.vertex_data)
        temp_i_buf == mesh.index_data
        v == copy_buffer_to_buffer(temp_v_buf, "vertex_buf", Len(mesh.vertex_data) * 24)
        i == copy_buffer_to_buffer(temp_i_buf, "index_buf", Len(mesh.index_data))
    IN  Record(Record(encs, pending, v), pending, i)

\* create(), the adapter request yielding None: `.unwrap()` panics.
RenderContext_create_panic ==
    /\ process' = "terminated"
    /\ rc_result' = "Panicked"
    /\ UNCHANGED <<env_vars, renders, resizes, acquire_failed, rc_requested, next_frame_encoder, amplitude, frequency,
                   sc_desc, swap_chain, mx_total, dirty, backend_vars, gpu_vars>>

\* create(), the adapter request yielding an adapter.
RenderContext_create_ok ==
    LET size == window
        setup == Len(encoders) + 1
        enc0 == create_command_encoder(encoders)
        mesh == create_vertices(DefaultAmplitude, DefaultFrequency)
        desc == SwapChainDescriptor(size)
        texels == create_texels(TextureSize)
        enc1 == Record(enc0, setup, copy_buffer_to_texture(texels, "texture", TextureSize))
        mx == generate_matrix(aspect_ratio(desc.width, desc.height))
        mem == [vertex_buf |-> cast_vertices(mesh.vertex_data),
                index_buf |-> mesh.index_data,
                uniform_buf |-> mx,
                texture |-> [kind |-> "uninitialized", size |-> TextureSize,
                             len |-> TextureSize * TextureSize * 4],
                frames |-> frames]
    IN  /\ amplitude' = DefaultAmplitude
        /\ frequency' = DefaultFrequency
        /\ sc_desc' = desc
        /\ swap_chain' = create_swap_chain(Surface, Device, desc)
        /\ mx_total' = mx
        /\ Submit(create_command_encoder(enc1), setup, mem)
        /\ next_frame_encoder' = setup + 1
        /\ dirty' = FALSE
        /\ rc_result' = "Some"
        /\ UNCHANGED <<env_vars, process, renders, resizes, acquire_failed, rc_requested, gpu_vars>>

RenderContext_create ==
    /\ process = "running"
    /\ rc_result = "NotCalled"
    /\ IF adapter = "None" THEN RenderContext_create_panic ELSE RenderContext_create_ok

\* The driver's loop is followed up to its MaxRenders-th frame.
Driving == renders < MaxRenders

Ready == process = "running" /\ rc_result = "Some" /\ Driving

\* resize() computing the camera from the dimensions it is about to replace.
RenderContext_resize_stale_matrix ==
    /\ Ready
    /\ resizes < MaxResizes
    /\ \E size \in Sizes :
          LET desc == [sc_desc EXCEPT !.width = size[1], !.height = size[2]]
              mx == generate_matrix(aspect_ratio(sc_desc.width, sc_desc.height))
              temp_buf == mx
          IN  /\ sc_desc' = desc
              /\ swap_chain' = create_swap_chain(Surface, Device, desc)
              /\ mx_total' = mx
              /\ encoders' = Record(encoders, next_frame_encoder,
                                    copy_buffer_to_buffer(temp_buf, "uniform_buf", UniformCopySize))
              /\ rc_requested' = <<size>>
    /\ resizes' = resizes + 1
    /\ UNCHANGED <<env_vars, process, renders, acquire_failed, rc_result,
                   next_frame_encoder, amplitude, frequency, dirty, queue, vertex_buf, index_buf, uniform_buf, texture,
                   frames, gpu_vars>>

\* resize() submitting its copy at once, in a command buffer of its own.
RenderContext_resize_flush ==
    /\ Ready
    /\ resizes < MaxResizes
    /\ \E size \in Sizes :
          LET desc == [sc_desc EXCEPT !.width = size[1], !.height = size[2]]
              mx == generate_matrix(aspect_ratio(desc.width, desc.height))
              temp_buf == mx
              own == Len(encoders) + 1
          IN  /\ sc_desc' = desc
              /\ swap_chain' = create_swap_chain(Surface, Device, desc)
              /\ mx_total' = mx
              /\ Submit(Record(create_command_encoder(encoders), own,
                               copy_buffer_to_buffer(temp_buf, "uniform_buf", UniformCopySize)),
                        own, Memory)
              /\ rc_requested' = <<size>>
    /\ resizes' = resizes + 1
    /\ UNCHANGED <<env_vars, process, renders, acquire_failed, rc_result,
                   next_frame_encoder, amplitude, frequency, dirty, gpu_vars>>

RenderContext_resize ==
    /\ Ready
    /\ resizes < MaxResizes
    /\ \E size \in Sizes :
          LET desc == [sc_desc EXCEPT !.width = size[1], !.height = size[2]]
              mx == generate_matrix(aspect_ratio(desc.width, desc.height))
              temp_buf == mx
          IN  /\ sc_desc' = desc
              /\ swap_chain' = create_swap_chain(Surface, Device, desc)
              /\ mx_total' = mx
              /\ encoders' = Record(encoders, next_frame_encoder,
                                    copy_buffer_to_buffer(temp_buf, "uniform_buf", UniformCopySize))
              /\ rc_requested' = <<size>>
    /\ resizes' = resizes + 1
    /\ UNCHANGED <<env_vars, process, renders, acquire_failed, rc_result,
                   next_frame_encoder, amplitude, frequency, dirty, queue, vertex_buf, index_buf, uniform_buf, texture,
                   frames, gpu_vars>>

\* render() acquiring the frame only after the dirty flag was handled.
render_panic_late ==
    /\ process' = "terminated"
    /\ dirty' = FALSE
    /\ encoders' = IF dirty
                   THEN regenerate_mesh(encoders, next_frame_encoder, amplitude, frequency)
                   ELSE encoders
    /\ acquire_failed' = TRUE
    /\ UNCHANGED <<env_vars, renders, resizes, rc_requested, rc_result, next_frame_encoder,
                   amplitude, frequency, sc_desc, swap_chain, mx_total, queue, vertex_buf,
                   index_buf, uniform_buf, texture, frames, gpu_vars>>

\* render(), get_next_texture() timing out: `.expect(..)` panics.
render_panic ==
    /\ process' = "terminated"
    /\ acquire_failed' = TRUE
    /\ UNCHANGED <<env_vars, renders, resizes, rc_requested, rc_vars, backend_vars, gpu_vars>>

\* render() swapping the encoders before it regenerates the mesh.
render_frame_swap_first ==
    LET frame == renders + 1
        local == next_frame_encoder
        fresh == Len(encoders) + 1
        swapped == create_command_encoder(encoders)
        staged == IF dirty
                  THEN regenerate_mesh(swapped, fresh, amplitude, frequency)
                  ELSE swapped
        passed == Record(staged, local, render_pass(frame))
    IN  /\ dirty' = FALSE
        /\ next_frame_encoder' = fresh
        /\ Submit(passed, local, Memory)
        /\ renders' = renders + 1
        /\ UNCHANGED <<env_vars, process, resizes, acquire_failed, rc_requested, rc_result, amplitude, frequency,
                       sc_desc, swap_chain, mx_total, gpu_vars>>

\* render() recording its render pass before it regenerates the mesh.
render_frame_pass_first ==
    LET frame == renders + 1
        local == next_frame_encoder
        passed == Record(encoders, local, render_pass(frame))
        staged == IF dirty
                  THEN regenerate_mesh(passed, local, amplitude, frequency)
                  ELSE passed
        fresh == Len(staged) + 1
        swapped == create_command_encoder(staged)
    IN  /\ dirty' = FALSE
        /\ next_frame_encoder' = fresh
        /\ Submit(swapped, local, Memory)
        /\ renders' = renders + 1
        /\ UNCHANGED <<env_vars, process, resizes, acquire_failed, rc_requested, rc_result, amplitude, frequency,
                       sc_desc, swap_chain, mx_total, gpu_vars>>

\* render() submitting the pending encoder without swapping it out.
render_frame_no_swap ==
    LET frame == renders + 1
        staged == IF dirty
                  THEN regenerate_mesh(encoders, next_frame_encoder, amplitude, frequency)
                  ELSE encoders
        local == next_frame_encoder
        passed == Record(staged, local, render_pass(frame))
    IN  /\ dirty' = FALSE
        /\ next_frame_encoder' = local
        /\ Submit(passed, local, Memory)
        /\ renders' = renders + 1
        /\ UNCHANGED <<env_vars, process, resizes, acquire_failed, rc_requested, rc_result, amplitude, frequency,
                       sc_desc, swap_chain, mx_total, gpu_vars>>

\* render() with a frame acquired.
render_frame ==
    LET frame == renders + 1
        staged == IF dirty
                  THEN regenerate_mesh(encoders, next_frame_encoder, amplitude, frequency)
                  ELSE encoders
        fresh == Len(staged) + 1
        swapped == create_command_encoder(staged)
        local == next_frame_encoder
        passed == Record(swapped, local, render_pass(frame))
    IN  /\ dirty' = FALSE
        /\ next_frame_encoder' = fresh
        /\ Submit(passed, local, Memory)
        /\ renders' = renders + 1
        /\ UNCHANGED <<env_vars, process, resizes, acquire_failed, rc_requested, rc_result, amplitude, frequency,
                       sc_desc, swap_chain, mx_total, gpu_vars>>

render ==
    /\ Ready
    /\ \E next_texture \in SwapChainOutputs :
          IF next_texture = "Timeout" THEN render_panic ELSE render_frame

set_dirty ==
    /\ Ready
    /\ dirty' = TRUE
    /\ UNCHANGED <<env_vars, process, renders, resizes, acquire_failed, rc_requested, rc_result, next_frame_encoder,
                   amplitude, frequency, sc_desc, swap_chain, mx_total, backend_vars, gpu_vars>>

\* set_amplitude() marking the context dirty as well.
set_amplitude_dirty ==
    /\ Ready
    /\ \E a \in Amplitudes : amplitude' = a
    /\ dirty' = TRUE
    /\ UNCHANGED <<env_vars, process, renders, resizes, acquire_failed, rc_requested, rc_result,
                   next_frame_encoder, frequency, sc_desc, swap_chain, mx_total,
                   backend_vars, gpu_vars>>

set_amplitude ==
    /\ Ready
    /\ \E a \in Amplitudes : amplitude' = a
    /\ UNCHANGED <<env_vars, process, renders, resizes, acquire_failed, rc_requested, rc_result, next_frame_encoder,
                   frequency, sc_desc, swap_chain, mx_total, dirty, backend_vars, gpu_vars>>

set_frequency ==
    /\ Ready
    /\ \E f \in Frequencies : frequency' = f
    /\ UNCHANGED <<env_vars, process, renders, resizes, acquire_failed, rc_requested, rc_result, next_frame_encoder,
                   amplitude, sc_desc, swap_chain, mx_total, dirty, backend_vars, gpu_vars>>

----------------------------------------------------------------------------
(* GpuContext *)

GpuReady == process = "running" /\ gpu_result = <<"Ok">>

\* create() unwrapping the adapter request, as RenderContext::create does.
GpuContext_create_unwrap ==
    /\ process = "running"
    /\ gpu_result = <<"NotCalled">>
    /\ LET size == window
           device == device_request
           swap_chain_desc == SwapChainDescriptor(size)
       IN  IF adapter = "None"
           THEN /\ process' = "terminated"
                /\ UNCHANGED <<gpu_result, gpu_context>>
           ELSE IF device[1] = "Err"
           THEN /\ gpu_result' = <<"Err", "RequestDeviceError", device[2]>>
                /\ UNCHANGED <<process, gpu_context>>
           ELSE /\ gpu_result' = <<"Ok">>
                /\ gpu_context' = << [surface |-> Surface, device |-> Device,
                                      queue |-> Queue,
                                      swap_chain_desc |-> swap_chain_desc,
                                      swap_chain |-> create_swap_chain(Surface, Device,
                                                                       swap_chain_desc)] >>
                /\ UNCHANGED process
    /\ UNCHANGED <<env_vars, renders, resizes, acquire_failed, rc_requested, rc_vars, backend_vars,
                   gpu_requested, gpu_encoders, gpu_queue, gpu_frame>>

GpuContext_create ==
    /\ process = "running"
    /\ gpu_result = <<"NotCalled">>
    /\ LET size == window
           device == device_request
           swap_chain_desc == SwapChainDescriptor(size)
       IN  IF adapter = "None"
           THEN /\ gpu_result' = <<"Err", "RequestAdapterError">>
                /\ UNCHANGED gpu_context
           ELSE IF device[1] = "Err"
           THEN /\ gpu_result' = <<"Err", "RequestDeviceError", device[2]>>
                /\ UNCHANGED gpu_context
           ELSE /\ gpu_result' = <<"Ok">>
                /\ gpu_context' = << [surface |-> Surface, device |-> Device,
                                      queue |-> Queue,
                                      swap_chain_desc |-> swap_chain_desc,
                                      swap_chain |-> create_swap_chain(Surface, Device,
                                                                       swap_chain_desc)] >>
    /\ UNCHANGED <<env_vars, process, renders, resizes, acquire_failed, rc_requested, rc_vars, backend_vars,
                   gpu_requested, gpu_encoders, gpu_queue, gpu_frame>>

\* resize() updating the descriptor without recreating the swap chain.
GpuContext_resize_keep_chain ==
    /\ GpuReady
    /\ \E size \in Sizes :
          LET self == gpu_context[1]
              desc == [self.swap_chain_desc EXCEPT !.width = size[1], !.height = size[2]]
          IN  /\ gpu_context' = << [self EXCEPT !.swap_chain_desc = desc] >>
              /\ gpu_requested' = <<size>>
    /\ UNCHANGED <<env_vars, process, renders, resizes, acquire_failed, rc_requested, rc_vars, backend_vars,
                   gpu_result, gpu_encoders, gpu_queue, gpu_frame>>

GpuContext_resize ==
    /\ GpuReady
    /\ \E size \in Sizes :
          LET self == gpu_context[1]
              desc == [self.swap_chain_desc EXCEPT !.width = size[1], !.height = size[2]]
          IN  /\ gpu_context' = << [self EXCEPT
                                      !.swap_chain_desc = desc,
                                      !.swap_chain = create_swap_chain(self.surface,
                                                                       self.device, desc)] >>
              /\ gpu_requested' = <<size>>
    /\ UNCHANGED <<env_vars, process, renders, resizes, acquire_failed, rc_requested, rc_vars, backend_vars,
                   gpu_result, gpu_encoders, gpu_queue, gpu_frame>>

\* create_command_encoder(): the caller gets a new encoder.
GpuContext_create_command_encoder ==
    /\ GpuReady
    /\ Len(gpu_encoders) < MaxGpuEncoders
    /\ gpu_encoders' = Append(gpu_encoders, "Recording")
    /\ UNCHANGED <<env_vars, process, renders, resizes, acquire_failed, rc_requested, rc_vars, backend_vars,
                   gpu_result, gpu_context, gpu_requested, gpu_queue, gpu_frame>>

\* submit_command_encoder(encoder): finishes it and submits the command buffer.
GpuContext_submit_command_encoder ==
    /\ GpuReady
    /\ \E id \in 1 .. Len(gpu_encoders) :
          /\ gpu_encoders[id] = "Recording"
          /\ gpu_encoders' = [gpu_encoders EXCEPT ![id] = "Finished"]
          /\ gpu_queue' = Append(gpu_queue, id)
    /\ UNCHANGED <<env_vars, process, renders, resizes, acquire_failed, rc_requested, rc_vars, backend_vars,
                   gpu_result, gpu_context, gpu_requested, gpu_frame>>

\* get_next_frame(): the swap chain's frame, or its error wrapped, returned.
GpuContext_get_next_frame ==
    /\ GpuReady
    /\ \E next_frame \in SwapChainOutputs :
          gpu_frame' = IF next_frame = "Timeout"
                       THEN <<"Err", "SwapChainError", next_frame>>
                       ELSE <<"Ok">>
    /\ UNCHANGED <<env_vars, process, renders, resizes, acquire_failed, rc_requested, rc_vars, backend_vars,
                   gpu_result, gpu_context, gpu_requested, gpu_encoders, gpu_queue>>

\* size(): the dimensions of the current swap chain descriptor.
size(self) == <<self.swap_chain_desc.width, self.swap_chain_desc.height>>

\* aspect_ratio(): width as f32 / height as f32.
gpu_aspect_ratio(self) == aspect_ratio(self.swap_chain_desc.width, self.swap_chain_desc.height)

----------------------------------------------------------------------------
(* Specifications *)

\* The RenderContext and its driver.
Next ==
    \/ RenderContext_create
    \/ RenderContext_resize
    \/ render
    \/ set_dirty
    \/ set_amplitude
    \/ set_frequency

Spec == Init /\ [][Next]_vars

\* The GpuContext and its callers, with the RenderContext's construction on the
\* same machine beside it.
GpuNext ==
    \/ GpuContext_create
    \/ GpuContext_resize
    \/ GpuContext_create_command_encoder
    \/ GpuContext_submit_command_encoder
    \/ GpuContext_get_next_frame
    \/ RenderContext_create

GpuSpec == GpuInit /\ [][GpuNext]_vars

----------------------------------------------------------------------------
(* Vocabulary of the properties *)

Last(seq) == seq[Len(seq)]
IsPrefix(s, t) == Len(s) <= Len(t) /\ SubSeq(t, 1, Len(s)) = s

\* The commands staged in the pending encoder.
Pending == encoders[next_frame_encoder].cmds

\* A step that is a completed render() call.
RenderStep == renders' = renders + 1

\* A step that is a RenderContext::resize call.
ResizeStep == resizes' = resizes + 1

\* The command buffer a completed render() call submitted, seen from its step.
SubmittedByStep == encoders'[Last(queue')].cmds

MeshCopies(cmds) ==
    SelectSeq(cmds, LAMBDA c : c.op = "copy_buffer_to_buffer"
                                /\ c.dst \in {"vertex_buf", "index_buf"})
UniformCopies(cmds) ==
    SelectSeq(cmds, LAMBDA c : c.op = "copy_buffer_to_buffer" /\ c.dst = "uniform_buf")
Copies(cmds) == SelectSeq(cmds, LAMBDA c : c.op = "copy_buffer_to_buffer")
Passes(cmds) == SelectSeq(cmds, LAMBDA c : c.op = "render_pass")

DefaultVertices ==
    cast_vertices(create_vertices(DefaultAmplitude, DefaultFrequency).vertex_data)

\* The size the camera has to follow: that of the most recent resize, or the
\* window's when there was none.
CurrentSize == IF rc_requested = <<>> THEN window ELSE rc_requested[1]

----------------------------------------------------------------------------
(* C1 *)

\* C1, as stated: one-frame latency.  When render() finds the dirty flag set,
\* the frame it draws reads the vertex and index buffers as they were before
\* the regeneration, the command buffer it submits holds no regeneration
\* copy, and the copies stay in the encoder that is pending after the swap.
C1_OneFrameLatency ==
    [][(RenderStep /\ dirty) =>
          /\ Last(frames').vertices = vertex_buf
          /\ Last(frames').indices = index_buf
          /\ MeshCopies(SubmittedByStep) = <<>>
          /\ MeshCopies(Pending') # <<>>]_vars

\* C1, amended: no latency.  When render() finds the dirty flag set, the
\* regeneration copies are recorded into the encoder that was pending, which
\* is the one this call submits, ahead of its render pass; the frame this call
\* draws reads the regenerated vertices, and nothing of the regeneration is
\* left in the encoder that is pending afterwards.
C1_RegenerationDrawnSameFrame ==
    [][(RenderStep /\ dirty) =>
          LET mesh == create_vertices(amplitude, frequency)
          IN  /\ Last(queue') = next_frame_encoder
              /\ Len(MeshCopies(SubmittedByStep)) = 2
              /\ Last(SubmittedByStep).op = "render_pass"
              /\ Len(Passes(SubmittedByStep)) = 1
              /\ Last(frames').attachment = renders + 1
              /\ Last(frames').vertices = cast_vertices(mesh.vertex_data)
              /\ Pending' = <<>>]_vars

\* A frame has drawn a mesh regenerated with non-default parameters, staged by
\* the very render() call that drew it.
C1_Witness ==
    /\ rc_result = "Some"
    /\ renders >= 1
    /\ MeshCopies(encoders[Last(queue)].cmds) # <<>>
    /\ Last(frames).vertices # DefaultVertices
    /\ Last(frames).vertices = vertex_buf

----------------------------------------------------------------------------
(* C2 *)

\* C2: every copy staged by resize() or by a regeneration is in the pending
\* encoder until the next completed render(); that call submits the encoder
\* with everything staged so far, the regeneration copies of the call itself
\* included, all of it ahead of the single render pass that ends the command
\* buffer; after a completed render() nothing is pending, and no other call
\* removes a staged copy.
C2_StagedCopiesSubmittedByNextRender ==
    /\ [][ResizeStep =>
             /\ next_frame_encoder' = next_frame_encoder
             /\ Len(Pending') = Len(Pending) + 1
             /\ IsPrefix(Pending, Pending')
             /\ Last(Pending').op = "copy_buffer_to_buffer"
             /\ Last(Pending').dst = "uniform_buf"]_vars
    /\ [][RenderStep =>
             /\ queue' = Append(queue, next_frame_encoder)
             /\ IsPrefix(Pending, SubmittedByStep)
             /\ Len(SubmittedByStep) = Len(Pending) + (IF dirty THEN 2 ELSE 0) + 1
             /\ Copies(SubmittedByStep) = SubSeq(SubmittedByStep, 1, Len(SubmittedByStep) - 1)
             /\ Last(SubmittedByStep).op = "render_pass"
             /\ Pending' = <<>>]_vars
    /\ [][(rc_result = "Some" /\ ~RenderStep) =>
             /\ next_frame_encoder' = next_frame_encoder
             /\ IsPrefix(Pending, Pending')]_vars

\* A render() call has submitted two resize copies and a regeneration ahead of
\* its render pass.
C2_Witness ==
    /\ rc_result = "Some"
    /\ renders >= 1
    /\ Len(UniformCopies(encoders[Last(queue)].cmds)) = 2
    /\ Len(MeshCopies(encoders[Last(queue)].cmds)) = 2
    /\ Pending = <<>>

----------------------------------------------------------------------------
(* C3 *)

\* C3: once set, the dirty flag stays set until a render() completes, whatever
\* setters are called meanwhile; that render() stages exactly one vertex copy
\* and one index copy, whose data is create_vertices of the amplitude and
\* frequency current at that call; a render() that finds the flag clear stages
\* none, and no mesh copy is ever staged outside render().
C3_DirtyCoalescing ==
    /\ [][(dirty /\ ~RenderStep) => dirty']_vars
    /\ [][RenderStep =>
             LET mc == MeshCopies(SubmittedByStep)
                 mesh == create_vertices(amplitude, frequency)
             IN  /\ amplitude' = amplitude
                 /\ frequency' = frequency
                 /\ MeshCopies(Pending) = <<>>
                 /\ IF dirty
                    THEN /\ Len(mc) = 2
                         /\ mc[1].dst = "vertex_buf"
                         /\ mc[1].src = cast_vertices(mesh.vertex_data)
                         /\ mc[2].dst = "index_buf"
                         /\ mc[2].src = mesh.index_data
                    ELSE mc = <<>>]_vars
    /\ [](rc_result = "Some" => MeshCopies(Pending) = <<>>)

\* The second render() has staged one regeneration, computed from an amplitude
\* and a frequency that both differ from the initial ones, after a first
\* render() that staged none.
C3_Witness ==
    /\ rc_result = "Some"
    /\ renders = 2
    /\ MeshCopies(encoders[queue[2]].cmds) = <<>>
    /\ Len(MeshCopies(encoders[queue[3]].cmds)) = 2
    /\ amplitude # DefaultAmplitude
    /\ frequency # DefaultFrequency
    /\ MeshCopies(encoders[queue[3]].cmds)[1].src
          = cast_vertices(create_vertices(amplitude, frequency).vertex_data)

----------------------------------------------------------------------------
(* C4 *)

\* C4: each resize() stores generate_matrix of the new width / height in
\* mx_total and stages its 16 floats; when the next render() completes, the
\* uniform buffer holds the matrix of the most recent resize (of the window's
\* size when there was none), which is also mx_total, and no uniform copy is
\* left pending.
C4_LastResizeWins ==
    /\ [][ResizeStep =>
             /\ mx_total' = generate_matrix(aspect_ratio(rc_requested'[1][1],
                                                         rc_requested'[1][2]))
             /\ Last(Pending').src = mx_total']_vars
    /\ [][RenderStep =>
             /\ uniform_buf' = generate_matrix(aspect_ratio(CurrentSize[1], CurrentSize[2]))
             /\ mx_total' = uniform_buf'
             /\ UniformCopies(Pending') = <<>>]_vars

\* A render() has executed the copies of two resizes of different aspect
\* ratios, and the uniform buffer holds the matrix of the second.
C4_Witness ==
    /\ rc_result = "Some"
    /\ renders >= 1
    /\ LET uc == UniformCopies(encoders[Last(queue)].cmds)
       IN  /\ Len(uc) = 2
           /\ uc[1].src # uc[2].src
           /\ uniform_buf = uc[2].src
           /\ uniform_buf = generate_matrix(aspect_ratio(CurrentSize[1], CurrentSize[2]))

----------------------------------------------------------------------------
(* C5 *)

\* C5: create() leaves the dirty flag false; a step that makes it true is a
\* set_dirty() call; a step that changes amplitude or frequency changes
\* nothing else; every completed render() leaves the flag false, and one that
\* found it false staged no regeneration.
C5_DirtyFlagTransitions ==
    /\ [][(rc_result # "Some" /\ rc_result' = "Some") => ~dirty']_vars
    /\ [][(~dirty /\ dirty') => set_dirty]_vars
    /\ [][(rc_result = "Some" /\ amplitude' # amplitude) =>
             UNCHANGED <<env_vars, process, renders, resizes, acquire_failed, rc_requested, rc_result,
                         next_frame_encoder, frequency, sc_desc, swap_chain, mx_total,
                         dirty, backend_vars, gpu_vars>>]_vars
    /\ [][(rc_result = "Some" /\ frequency' # frequency) =>
             UNCHANGED <<env_vars, process, renders, resizes, acquire_failed, rc_requested, rc_result,
                         next_frame_encoder, amplitude, sc_desc, swap_chain, mx_total,
                         dirty, backend_vars, gpu_vars>>]_vars
    /\ [][RenderStep => ~dirty']_vars
    /\ [][(RenderStep /\ ~dirty) => MeshCopies(SubmittedByStep) = <<>>]_vars

\* Both parameters were changed without set_dirty(), and a frame was drawn
\* with the initial mesh.
C5_Witness ==
    /\ rc_result = "Some"
    /\ renders >= 1
    /\ amplitude # DefaultAmplitude
    /\ frequency # DefaultFrequency
    /\ ~dirty
    /\ MeshCopies(encoders[Last(queue)].cmds) = <<>>
    /\ Last(frames).vertices = DefaultVertices

----------------------------------------------------------------------------
(* C6 *)

\* C6: on a machine whose adapter request yields none, GpuContext::create
\* returns RequestAdapterError; where the device request fails it returns
\* RequestDeviceError wrapping the backend's error; an error return leaves no
\* context (hence no swap chain) and GpuContext::create never ends the
\* process.  RenderContext::create on the machine without an adapter ends the
\* process and yields neither None nor a context.
C6_FatalPathSplit ==
    /\ (adapter = "None" /\ gpu_result # <<"NotCalled">>)
          => gpu_result = <<"Err", "RequestAdapterError">>
    /\ (adapter = "Some" /\ device_request[1] = "Err" /\ gpu_result # <<"NotCalled">>)
          => gpu_result = <<"Err", "RequestDeviceError", device_request[2]>>
    /\ gpu_result[1] = "Err" => gpu_context = <<>>
    /\ process = "terminated" => rc_result = "Panicked"
    /\ (adapter = "None" /\ rc_result # "NotCalled")
          => /\ rc_result = "Panicked"
             /\ process = "terminated"
             /\ encoders = <<>>
             /\ queue = <<>>
             /\ swap_chain = NoSwapChain
    /\ rc_result \in {"NotCalled", "Some", "Panicked"}

\* Without an adapter, GpuContext::create has returned its error and
\* RenderContext::create, called after it, has ended the process.
C6_Witness ==
    /\ adapter = "None"
    /\ gpu_result = <<"Err", "RequestAdapterError">>
    /\ gpu_context = <<>>
    /\ rc_result = "Panicked"
    /\ process = "terminated"

----------------------------------------------------------------------------
(* C7 *)

\* C7: a failed frame acquisition in render() ends the process, in the same
\* step and for good (no later call takes effect, so nothing is retried and no
\* frame is skipped), and that step changes nothing of the RenderContext or of
\* the backend: the dirty flag, the pending encoder and its commands, the
\* queue and the buffers are as before the call.
C7_AcquisitionFailureIsFatal ==
    /\ [](acquire_failed => process = "terminated")
    /\ [][(~acquire_failed /\ acquire_failed') =>
             /\ rc_result = "Some"
             /\ UNCHANGED <<renders, resizes, rc_requested, rc_vars, backend_vars>>]_vars
    /\ [][process = "terminated" => UNCHANGED vars]_vars

\* render() failed to acquire its frame with the dirty flag set and a resize
\* copy pending, after an earlier frame.
C7_Witness ==
    /\ acquire_failed
    /\ process = "terminated"
    /\ renders >= 1
    /\ dirty
    /\ Pending # <<>>

----------------------------------------------------------------------------
(* C8 *)

\* C8: the queue holds the setup command buffer of create(), which carries the
\* texture upload, followed by one command buffer per completed render(), the
\* i-th of them holding the render pass of the i-th frame; only a completed
\* render() adds to the queue, and it adds one command buffer at the end.
C8_SubmissionOrder ==
    /\ [](rc_result # "Some" => queue = <<>>)
    /\ [](rc_result = "Some" =>
            /\ Len(queue) = renders + 1
            /\ encoders[queue[1]].cmds
                  = <<copy_buffer_to_texture(create_texels(TextureSize), "texture", TextureSize)>>
            /\ \A i \in 1 .. renders :
                  LET cb == encoders[queue[i + 1]].cmds
                  IN  /\ Len(Passes(cb)) = 1
                      /\ Passes(cb)[1].attachment = i
                      /\ \A k \in 1 .. Len(cb) : cb[k].op # "copy_buffer_to_texture")
    /\ [][(rc_result = "Some" /\ ~RenderStep) => queue' = queue]_vars
    /\ [][RenderStep => (Len(queue') = Len(queue) + 1 /\ IsPrefix(queue, queue'))]_vars

\* Two frames were submitted after the setup, with resizes and a set_dirty()
\* in between.
C8_Witness ==
    /\ rc_result = "Some"
    /\ renders = 2
    /\ resizes = 2
    /\ Len(queue) = 3
    /\ MeshCopies(encoders[queue[3]].cmds) # <<>>
    /\ UniformCopies(encoders[queue[3]].cmds) # <<>>

----------------------------------------------------------------------------
(* C9 *)

\* C9: a GpuContext reports as size() the size of the most recent resize (the
\* window's when there was none); its swap chain was created from the
\* descriptor it stores, which has those dimensions and the format, usage and
\* present mode of create(); the device, queue and surface are those of create().
C9_SizeFollowsResize ==
    gpu_result = <<"Ok">> =>
        LET self == gpu_context[1]
            want == IF gpu_requested = <<>> THEN window ELSE gpu_requested[1]
        IN  /\ Len(gpu_context) = 1
            /\ size(self) = want
            /\ self.swap_chain_desc.width = want[1]
            /\ self.swap_chain_desc.height = want[2]
            /\ self.swap_chain_desc.format = "Bgra8UnormSrgb"
            /\ self.swap_chain_desc.usage = "OUTPUT_ATTACHMENT"
            /\ self.swap_chain_desc.present_mode = "Mailbox"
            /\ self.swap_chain.desc = self.swap_chain_desc
            /\ self.swap_chain.surface = Surface
            /\ self.swap_chain.device = Device
            /\ self.surface = Surface
            /\ self.device = Device
            /\ self.queue = Queue

\* A GpuContext created on a 2x1 window was resized to 1x1.
C9_Witness ==
    /\ gpu_result = <<"Ok">>
    /\ window = <<2, 1>>
    /\ gpu_requested = << <<1, 1>> >>
    /\ size(gpu_context[1]) = <<1, 1>>

----------------------------------------------------------------------------
(* C10 *)

\* C10: a constructed RenderContext holds exactly one encoder that is still
\* recording, next_frame_encoder; every other encoder is finished and is in
\* the queue exactly once; the pending encoder is empty right after create()
\* and right after each render(); a render() submits the encoder that was
\* pending and makes a new one pending; no other call replaces it, and a
\* finished encoder never changes.
C10_PendingEncoderOwnership ==
    /\ [](rc_result = "Some" =>
            /\ next_frame_encoder \in 1 .. Len(encoders)
            /\ \A id \in 1 .. Len(encoders) :
                  /\ encoders[id].state
                        = IF id = next_frame_encoder THEN "Recording" ELSE "Finished"
                  /\ Cardinality({i \in 1 .. Len(queue) : queue[i] = id})
                        = IF id = next_frame_encoder THEN 0 ELSE 1)
    /\ [][(rc_result # "Some" /\ rc_result' = "Some") => Pending' = <<>>]_vars
    /\ [][RenderStep =>
             /\ Last(queue') = next_frame_encoder
             /\ next_frame_encoder' = Len(encoders) + 1
             /\ Len(encoders') = Len(encoders) + 1
             /\ Pending' = <<>>]_vars
    /\ [][(rc_result = "Some" /\ ~RenderStep) =>
             /\ next_frame_encoder' = next_frame_encoder
             /\ Len(encoders') = Len(encoders)]_vars
    /\ [][rc_result = "Some" =>
             \A id \in 1 .. Len(encoders) :
                encoders[id].state = "Finished" => encoders'[id] = encoders[id]]_vars

\* After two frames, each of which submitted staged copies with its render
\* pass, the fourth encoder is pending and empty.
C10_Witness ==
    /\ rc_result = "Some"
    /\ renders = 2
    /\ Len(encoders) = 4
    /\ next_frame_encoder = 4
    /\ Pending = <<>>
    /\ Len(encoders[queue[2]].cmds) > 1
    /\ Len(encoders[queue[3]].cmds) > 1

----------------------------------------------------------------------------
(* C11 *)

\* C11: a mesh regeneration replaces the whole of both mesh buffers.  The
\* vertex copy a render() stages covers vertex_count * 24 bytes, which is the
\* byte length of the new vertex data; the index copy covers the byte length
\* of the new index data, index_count * 4, which is index_buf_len * 4; and
\* the indices the frame draws are those of the new mesh.
C11_RegenerationReplacesWholeBuffers ==
    [][(RenderStep /\ dirty) =>
          LET mc == MeshCopies(SubmittedByStep)
              mesh == create_vertices(amplitude, frequency)
          IN  /\ Len(mc) = 2
              /\ mc[1].size = Len(mesh.vertex_data) * 24
              /\ mc[1].size = ByteLen(cast_vertices(mesh.vertex_data))
              /\ mc[2].size = ByteLen(mesh.index_data)
              /\ mc[2].size = index_buf_len * 4
              /\ Last(frames').indices = mesh.index_data]_vars

----------------------------------------------------------------------------
(* C12 *)

\* C12: the camera uniform is 64 bytes everywhere.  The uniform buffer of a
\* constructed RenderContext is 64 bytes long; every uniform copy a resize()
\* stages is of 64 bytes; the bind group a render pass binds refers to bytes
\* 0..64 of the uniform buffer, so the uniform a frame's shader is given is
\* the whole of what was written.
C12_UniformIs64BytesEverywhere ==
    /\ [](rc_result = "Some" =>
            /\ ByteLen(uniform_buf) = 64
            /\ \A k \in 1 .. Len(UniformCopies(Pending)) :
                  UniformCopies(Pending)[k].size = 64)
    /\ [][RenderStep =>
             /\ \A k \in 1 .. Len(UniformCopies(SubmittedByStep)) :
                   UniformCopies(SubmittedByStep)[k].size = 64
             /\ Last(SubmittedByStep).bind_group.binding0.buffer = "uniform_buf"
             /\ Last(SubmittedByStep).bind_group.binding0.range = <<0, 64>>
             /\ Last(frames').uniform = uniform_buf']_vars

----------------------------------------------------------------------------
(* C13 *)

\* C13: every call of generate_matrix by create() or resize() is made with a
\* positive aspect ratio, whatever size the driver forwards: the camera
\* matrix a constructed RenderContext stores was generated from a positive
\* aspect ratio, which is the quotient of the dimensions in its swap chain
\* descriptor.
C13_GenerateMatrixPrecondition ==
    rc_result = "Some" =>
        /\ aspect_of(mx_total) = aspect_ratio(sc_desc.width, sc_desc.height)
        /\ positive_aspect(aspect_of(mx_total))

====
